---------------------------- MODULE Spec2Model ----------------------------
(***************************************************************************)
(* Chicken-coop door controller (Arduino_pro_mini_chicken_coop.ino).       *)
(*                                                                         *)
(* One main context (setup() once, then loop() for ever), one interrupt    *)
(* handler (wakeISR on the falling edge of the DS3231 INT line), and the   *)
(* environment: the clock, the DS3231 alarm and the limit switch.          *)
(*                                                                         *)
(* Time t is physical time in milliseconds since 00:00:00 of the boot day. *)
(* The RTC counts whole seconds, rtc.now() = t \div 1000.  The calendar    *)
(* date is abstracted to a day index (the runs are shorter than a month).  *)
(***************************************************************************)
EXTENDS Integers, FiniteSets, Sequences, TLC

(* ---------- program constants (USER-TUNABLE CONSTANTS) ---------- *)
FWD_CMD    == 0
REV_MS     == 900
MAX_TURNS  == 6
CLOSE_DEG  == 2160
OPEN_HH    == 8
OPEN_MM    == 0
CLOSE_HH   == 22
CLOSE_MM   == 0
OBSERVE_MS == 3000
NEUTRAL    == 90
SETTLE_MS  == 200
FTDI_MS    == 10

(* ---------- bounds of the model ---------- *)
\* boot times are taken within BootWindow seconds of each scheduled event
BootWindow == 10
\* alarms fire up to the end of day MaxDay (boot is on day 0)
MaxDay     == 2
\* time that passes between two samples of the busy-wait of openDoor()
PollMs     == 900
\* edges on the INT line that no alarm caused (SpecStray only)
MaxStray   == 1

DaySec  == 24 * 60 * 60
OpenSec  == OPEN_HH * 3600 + OPEN_MM * 60
CloseSec == CLOSE_HH * 3600 + CLOSE_MM * 60

(* ---------- DateTime ---------- *)
Day(n)    == n \div DaySec
Hour(n)   == (n % DaySec) \div 3600
Minute(n) == (n % 3600) \div 60
Second(n) == n % 60
\* DateTime(year, month, day, h, m, 0).unixtime()
MkDateTime(day, h, m, s) == day * DaySec + h * 3600 + m * 60 + s
\* the lambda today(h, m) of scheduleNextWake()
Today(now, h, m) == MkDateTime(Day(now), h, m, 0)

VARIABLES
  pc,           \* position of the main context
  caller,       \* who invoked the running motion: "setup" or "loop"
  sleptFrom,    \* which goToSleep() call halted the processor
  t,            \* physical time, ms
  rtcPresent,   \* the DS3231 answers on the I2C bus
  alarmSet,     \* Alarm-1 registers programmed and A1IE set
  alarmAt,      \* Alarm-1 registers (second of the run)
  a1f,          \* DS3231 A1F: alarm matched, INT line held low
  intAttached,  \* attachInterrupt(INT0, wakeISR, FALLING) done
  intPending,   \* a falling edge is latched and wakeISR has not run yet
  alarmFlag,    \* volatile bool alarmFlag
  gateState,    \* DoorState gateState
  led,          \* LED_PIN level (fault indicator)
  mosfet,       \* MOSFET_PIN level (servo power gate)
  servoAttached,\* door.attach() done
  servoCmd,     \* last door.write() value
  limit,        \* limitPressed()
  elapsed,      \* millis() - t0 in openDoor()
  ok,           \* result of the last motion (bool ok)
  motion,       \* motion dispatched by the running cycle
  daytime,      \* setup(): bool daytime
  setupNow,     \* setup(): DateTime now (line 101)
  setupLimit,   \* setup(): limitPressed() as read by the correction
  loopNow,      \* loop(): DateTime now
  schedNow,     \* scheduleNextWake(): DateTime now
  schedNext,    \* scheduleNextWake(): DateTime next
  opens,        \* openDoor() invocations of the running cycle
  closes,       \* closeDoor() invocations of the running cycle
  rtcFailed,    \* rtc.begin() returned false
  motionFailed, \* some openDoor()/closeDoor() returned false since boot
  strays        \* edges on the INT line that no alarm caused, so far

vars == <<pc, caller, sleptFrom, t, rtcPresent, alarmSet, alarmAt, a1f,
          intAttached, intPending, alarmFlag, gateState, led, mosfet,
          servoAttached, servoCmd, limit, elapsed, ok, motion, daytime,
          setupNow, setupLimit, loopNow, schedNow, schedNext, opens, closes,
          rtcFailed, motionFailed, strays>>

rtcVars    == <<rtcPresent, alarmSet, alarmAt>>
schedVars  == <<schedNow, schedNext>>
ghostVars  == <<opens, closes, rtcFailed, motionFailed, strays>>
servoVars  == <<mosfet, servoAttached, servoCmd>>
setupLocals == <<daytime, setupNow, setupLimit>>

(* ---------- environment: clock and alarm ---------- *)
BootSeconds ==
  {OpenSec + d : d \in (0 - BootWindow)..BootWindow} \cup
  {CloseSec + d : d \in (0 - BootWindow)..BootWindow} \cup
  {0, 7 * 3600, 9 * 3600, 12 * 3600, 23 * 3600}
BootPhases == {0, 995}
BootTimes  == {s * 1000 + p : s \in BootSeconds, p \in BootPhases}

\* what a read of an absent clock may yield (uninitialised I2C buffer)
GarbageNow == {12 * 3600 + 34 * 60 + 56, 23 * 3600 + 59 * 60 + 59}

\* rtc.now(): the values a read of the clock can return
RtcNow == IF rtcPresent THEN {t \div 1000} ELSE GarbageNow

\* the alarm instant lies in (t, t + d]
AlarmDue(d) ==
  /\ rtcPresent /\ alarmSet /\ ~a1f
  /\ t < alarmAt * 1000
  /\ alarmAt * 1000 <= t + d

\* d milliseconds pass in the main context; the DS3231 raises A1F and pulls
\* INT low when its time matches the alarm registers, and the falling edge is
\* latched when the interrupt is attached
Advance(d) ==
  /\ t' = t + d
  /\ IF AlarmDue(d)
       THEN /\ a1f' = TRUE
            /\ intPending' = (intPending \/ intAttached)
       ELSE UNCHANGED <<a1f, intPending>>

\* the main context executes its next statement only when no interrupt waits
MainRuns(p) == pc = p /\ ~(intPending /\ intAttached)

Init ==
  /\ pc = "setup_gpio"
  /\ caller = "setup"
  /\ sleptFrom = "none"
  /\ t \in BootTimes
  /\ rtcPresent \in BOOLEAN
  /\ alarmSet = FALSE
  /\ alarmAt = 0
  /\ a1f \in (IF rtcPresent THEN BOOLEAN ELSE {FALSE})
  /\ intAttached = FALSE
  /\ intPending = FALSE
  /\ alarmFlag = FALSE
  /\ gateState = "CLOSED"
  /\ led = FALSE
  /\ mosfet = FALSE
  /\ servoAttached = FALSE
  /\ servoCmd = NEUTRAL
  /\ limit \in BOOLEAN
  /\ elapsed = 0
  /\ ok = TRUE
  /\ motion = "none"
  /\ daytime = FALSE
  /\ setupNow = 0
  /\ setupLimit = FALSE
  /\ loopNow = 0
  /\ schedNow = 0
  /\ schedNext = 0
  /\ opens = 0
  /\ closes = 0
  /\ rtcFailed = FALSE
  /\ motionFailed = FALSE
  /\ strays = 0

(* ---------- scheduleNextWake() ---------- *)
\* mutant of ComputeNext: the last branch forgets to add one day
M_ComputeNext(now) ==
  IF now < Today(now, OPEN_HH, OPEN_MM)
    THEN Today(now, OPEN_HH, OPEN_MM)
  ELSE IF now < Today(now, CLOSE_HH, CLOSE_MM)
    THEN Today(now, CLOSE_HH, CLOSE_MM)
  ELSE Today(now, OPEN_HH, OPEN_MM)

\* the timestamp `next` computed from `now`
ComputeNext(now) ==
  IF now < Today(now, OPEN_HH, OPEN_MM)
    THEN Today(now, OPEN_HH, OPEN_MM)
  ELSE IF now < Today(now, CLOSE_HH, CLOSE_MM)
    THEN Today(now, CLOSE_HH, CLOSE_MM)
  ELSE Today(now + DaySec, OPEN_HH, OPEN_MM)

\* rtc.clearAlarm(1); rtc.setAlarm1(next, DS3231_A1_Date)
ScheduleNextWake ==
  \E now \in RtcNow :
    /\ schedNow' = now
    /\ schedNext' = ComputeNext(now)
    /\ a1f' = FALSE
    /\ IF rtcPresent
         THEN alarmSet' = TRUE /\ alarmAt' = ComputeNext(now)
         ELSE UNCHANGED <<alarmSet, alarmAt>>
    /\ UNCHANGED rtcPresent

(* ---------- fault() ---------- *)
\* mutant of Fault: the LED follows the latest result instead of latching
M_Fault(raise) == led' = raise

Fault(raise) == led' = (led \/ raise)

(* ---------- wakeISR() ---------- *)
WakeISR ==
  /\ intPending /\ intAttached
  /\ intPending' = FALSE
  /\ alarmFlag' = TRUE
  /\ pc' = IF pc = "halted" THEN "main" ELSE pc
  /\ UNCHANGED <<caller, sleptFrom, t, rtcVars, a1f, intAttached, gateState,
                 led, servoVars, limit, elapsed, ok, motion, setupLocals,
                 loopNow, schedVars, ghostVars>>

\* loop() found alarmFlag false and returned: main() calls it over and over
Spinning == pc \in {"main", "loop"} /\ ~alarmFlag

\* the processor is halted, or spins through loop(), and the clock reaches
\* the alarm time
RtcAlarmFires ==
  /\ pc = "halted" \/ Spinning
  /\ rtcPresent /\ alarmSet /\ ~a1f
  /\ t < alarmAt * 1000
  /\ Day(alarmAt) <= MaxDay
  /\ t' = alarmAt * 1000
  /\ a1f' = TRUE
  /\ intPending' = (intPending \/ intAttached)
  /\ UNCHANGED <<pc, caller, sleptFrom, rtcVars, intAttached, alarmFlag,
                 gateState, led, servoVars, limit, elapsed, ok, motion,
                 setupLocals, loopNow, schedVars, ghostVars>>

\* the processor is halted and the INT line falls without an alarm match
\* (the "stray wakes" of loop()), d milliseconds later and before the alarm
StrayDelays == {5000, 90000}
StrayEdge ==
  /\ pc = "halted"
  /\ intAttached /\ ~intPending
  /\ strays < MaxStray
  /\ \E d \in StrayDelays :
       /\ ~a1f
       /\ alarmSet => t + d < alarmAt * 1000
       /\ t' = t + d
  /\ intPending' = TRUE
  /\ strays' = strays + 1
  /\ UNCHANGED <<pc, caller, sleptFrom, rtcVars, a1f, intAttached, alarmFlag,
                 gateState, led, servoVars, limit, elapsed, ok, motion,
                 setupLocals, loopNow, schedVars, opens, closes, rtcFailed,
                 motionFailed>>

\* the processor is halted and resumes without wakeISR having run (a wake
\* source other than the INT0 edge), d milliseconds later and before the alarm
SpuriousResume ==
  /\ pc = "halted"
  /\ ~intPending
  /\ strays < MaxStray
  /\ \E d \in StrayDelays :
       /\ (rtcPresent /\ alarmSet /\ ~a1f) => t + d < alarmAt * 1000
       /\ t' = t + d
  /\ pc' = "main"
  /\ strays' = strays + 1
  /\ UNCHANGED <<caller, sleptFrom, rtcVars, a1f, intAttached, intPending,
                 alarmFlag, gateState, led, servoVars, limit, elapsed, ok,
                 motion, setupLocals, loopNow, schedVars, opens, closes,
                 rtcFailed, motionFailed>>

\* the INT line falls while the main context is running, at any point
\* between two of its statements
GlitchEdge ==
  /\ pc # "halted"
  /\ intAttached /\ ~intPending
  /\ strays < MaxStray
  /\ intPending' = TRUE
  /\ strays' = strays + 1
  /\ UNCHANGED <<pc, caller, sleptFrom, t, rtcVars, a1f, intAttached,
                 alarmFlag, gateState, led, servoVars, limit, elapsed, ok,
                 motion, setupLocals, loopNow, schedVars, opens, closes,
                 rtcFailed, motionFailed>>

(* ---------- setup() ---------- *)
\* GPIO init, servo neutral, Serial, delay(10), Wire.begin()
SetupGpio ==
  /\ MainRuns("setup_gpio")
  /\ mosfet' = FALSE
  /\ led' = FALSE
  /\ servoAttached' = TRUE
  /\ servoCmd' = NEUTRAL
  /\ Advance(FTDI_MS)
  /\ pc' = "setup_rtc"
  /\ UNCHANGED <<caller, sleptFrom, rtcVars, intAttached, alarmFlag,
                 gateState, limit, elapsed, ok, motion, setupLocals, loopNow,
                 schedVars, ghostVars>>

\* mutant of SetupRtc: a failed rtc.begin() raises no fault
M_SetupRtc ==
  /\ MainRuns("setup_rtc")
  /\ rtcFailed' = ~rtcPresent
  /\ Fault(FALSE)
  /\ alarmSet' = FALSE
  /\ a1f' = FALSE
  /\ pc' = "setup_sched"
  /\ UNCHANGED <<caller, sleptFrom, t, rtcPresent, alarmAt, intAttached,
                 intPending, alarmFlag, gateState, servoVars, limit, elapsed,
                 ok, motion, setupLocals, loopNow, schedVars, opens, closes,
                 motionFailed, strays>>

\* rtc.begin(), fault on failure; disableAlarm(1); clearAlarm(1)
SetupRtc ==
  /\ MainRuns("setup_rtc")
  /\ rtcFailed' = ~rtcPresent
  /\ Fault(~rtcPresent)
  /\ alarmSet' = FALSE
  /\ a1f' = FALSE
  /\ pc' = "setup_sched"
  /\ UNCHANGED <<caller, sleptFrom, t, rtcPresent, alarmAt, intAttached,
                 intPending, alarmFlag, gateState, servoVars, limit, elapsed,
                 ok, motion, setupLocals, loopNow, schedVars, opens, closes,
                 motionFailed, strays>>

\* mutant of SetupSchedule: setup() forgets its scheduleNextWake() call
M_SetupSchedule ==
  /\ MainRuns("setup_sched")
  /\ UNCHANGED <<schedVars, rtcVars, a1f>>
  /\ pc' = "setup_attach"
  /\ UNCHANGED <<caller, sleptFrom, t, intAttached, intPending, alarmFlag,
                 gateState, led, servoVars, limit, elapsed, ok, motion,
                 setupLocals, loopNow, ghostVars>>

\* scheduleNextWake() of line 94
SetupSchedule ==
  /\ MainRuns("setup_sched")
  /\ ScheduleNextWake
  /\ pc' = "setup_attach"
  /\ UNCHANGED <<caller, sleptFrom, t, intAttached, intPending, alarmFlag,
                 gateState, led, servoVars, limit, elapsed, ok, motion,
                 setupLocals, loopNow, ghostVars>>

\* attachInterrupt(INT0, wakeISR, FALLING)
SetupAttach ==
  /\ MainRuns("setup_attach")
  /\ intAttached' = TRUE
  /\ pc' = "setup_correct"
  /\ UNCHANGED <<caller, sleptFrom, t, rtcVars, a1f, intPending, alarmFlag,
                 gateState, led, servoVars, limit, elapsed, ok, motion,
                 setupLocals, loopNow, schedVars, ghostVars>>

\* mutant of SetupCorrect: the daytime branch tests the switch the wrong way round
M_SetupCorrect ==
  /\ MainRuns("setup_correct")
  /\ \E now \in RtcNow :
       LET nowMin  == Hour(now) * 60 + Minute(now)
           openMin == OPEN_HH * 60 + OPEN_MM
           closMin == CLOSE_HH * 60 + CLOSE_MM
           day     == (nowMin >= openMin) /\ (nowMin < closMin)
       IN /\ setupNow' = now
          /\ daytime' = day
          /\ setupLimit' = limit
          /\ caller' = "setup"
          /\ ok' = TRUE
          /\ IF day /\ limit
               THEN /\ motion' = "open"
                    /\ opens' = opens + 1
                    /\ closes' = closes
                    /\ pc' = "open_entry"
             ELSE IF ~day /\ limit
               THEN /\ motion' = "close"
                    /\ closes' = closes + 1
                    /\ opens' = opens
                    /\ pc' = "close_start"
             ELSE /\ motion' = "none"
                  /\ UNCHANGED <<opens, closes>>
                  /\ pc' = "setup_ret"
  /\ UNCHANGED <<sleptFrom, t, rtcVars, a1f, intAttached, intPending,
                 alarmFlag, gateState, led, servoVars, limit, elapsed,
                 loopNow, schedVars, rtcFailed, motionFailed, strays>>

\* power-up door correction: the daytime test and the choice of a motion
SetupCorrect ==
  /\ MainRuns("setup_correct")
  /\ \E now \in RtcNow :
       LET nowMin  == Hour(now) * 60 + Minute(now)
           openMin == OPEN_HH * 60 + OPEN_MM
           closMin == CLOSE_HH * 60 + CLOSE_MM
           day     == (nowMin >= openMin) /\ (nowMin < closMin)
       IN /\ setupNow' = now
          /\ daytime' = day
          /\ setupLimit' = limit
          /\ caller' = "setup"
          /\ ok' = TRUE
          /\ IF day /\ ~limit
               THEN /\ motion' = "open"
                    /\ opens' = opens + 1
                    /\ closes' = closes
                    /\ pc' = "open_entry"
             ELSE IF ~day /\ limit
               THEN /\ motion' = "close"
                    /\ closes' = closes + 1
                    /\ opens' = opens
                    /\ pc' = "close_start"
             ELSE /\ motion' = "none"
                  /\ UNCHANGED <<opens, closes>>
                  /\ pc' = "setup_ret"
  /\ UNCHANGED <<sleptFrom, t, rtcVars, a1f, intAttached, intPending,
                 alarmFlag, gateState, led, servoVars, limit, elapsed,
                 loopNow, schedVars, rtcFailed, motionFailed, strays>>

\* mutant of SetupReturn: gateState records the outcome of the motion
M_SetupReturn ==
  /\ MainRuns("setup_ret")
  /\ Fault(~ok)
  /\ gateState' = IF daytime /\ ok THEN "OPEN" ELSE "CLOSED"
  /\ pc' = "setup_observe"
  /\ UNCHANGED <<caller, sleptFrom, t, rtcVars, a1f, intAttached, intPending,
                 alarmFlag, servoVars, limit, elapsed, ok, motion,
                 setupLocals, loopNow, schedVars, ghostVars>>

\* back in setup(): fault on a failed motion, gateState by the daytime branch
SetupReturn ==
  /\ MainRuns("setup_ret")
  /\ Fault(~ok)
  /\ gateState' = IF daytime THEN "OPEN" ELSE "CLOSED"
  /\ pc' = "setup_observe"
  /\ UNCHANGED <<caller, sleptFrom, t, rtcVars, a1f, intAttached, intPending,
                 alarmFlag, servoVars, limit, elapsed, ok, motion,
                 setupLocals, loopNow, schedVars, ghostVars>>

\* delay(OBSERVE_MS) of setup()
SetupObserve ==
  /\ MainRuns("setup_observe")
  /\ Advance(OBSERVE_MS)
  /\ pc' = "setup_sleep"
  /\ UNCHANGED <<caller, sleptFrom, rtcVars, intAttached, alarmFlag,
                 gateState, led, servoVars, limit, elapsed, ok, motion,
                 setupLocals, loopNow, schedVars, ghostVars>>

(* ---------- goToSleep() ---------- *)
GoToSleep ==
  /\ MainRuns("setup_sleep") \/ MainRuns("loop_sleep")
  /\ sleptFrom' = IF pc = "setup_sleep" THEN "setup" ELSE "loop"
  /\ pc' = "halted"
  /\ UNCHANGED <<caller, t, rtcVars, a1f, intAttached, intPending, alarmFlag,
                 gateState, led, servoVars, limit, elapsed, ok, motion,
                 setupLocals, loopNow, schedVars, ghostVars>>

(* ---------- the motions ---------- *)
ReturnPc == IF caller = "setup" THEN "setup_ret" ELSE "loop_ret"

\* mutant of OpenEntry: no early return when the switch already reads triggered
M_OpenEntry ==
  /\ MainRuns("open_entry")
  /\ IF FALSE
       THEN /\ ok' = TRUE
            /\ pc' = ReturnPc
            /\ UNCHANGED <<t, a1f, intPending, servoVars, elapsed>>
       ELSE /\ mosfet' = TRUE
            /\ Advance(SETTLE_MS)
            /\ servoCmd' = FWD_CMD
            /\ elapsed' = 0
            /\ pc' = "open_wait"
            /\ UNCHANGED <<ok, servoAttached>>
  /\ UNCHANGED <<caller, sleptFrom, rtcVars, intAttached, alarmFlag,
                 gateState, led, limit, motion, setupLocals, loopNow,
                 schedVars, ghostVars>>

\* openDoor(): early return when already open, else power up and drive
OpenEntry ==
  /\ MainRuns("open_entry")
  /\ IF limit
       THEN /\ ok' = TRUE
            /\ pc' = ReturnPc
            /\ UNCHANGED <<t, a1f, intPending, servoVars, elapsed>>
       ELSE /\ mosfet' = TRUE
            /\ Advance(SETTLE_MS)
            /\ servoCmd' = FWD_CMD
            /\ elapsed' = 0
            /\ pc' = "open_wait"
            /\ UNCHANGED <<ok, servoAttached>>
  /\ UNCHANGED <<caller, sleptFrom, rtcVars, intAttached, alarmFlag,
                 gateState, led, limit, motion, setupLocals, loopNow,
                 schedVars, ghostVars>>

\* mutant of OpenPoll: the timeout forgets MAX_TURNS (one revolution only)
M_OpenPoll ==
  /\ MainRuns("open_wait")
  /\ IF ~limit /\ elapsed < REV_MS
       THEN /\ Advance(PollMs)
            /\ elapsed' = elapsed + PollMs
            /\ limit' \in BOOLEAN
            /\ pc' = pc
       ELSE /\ pc' = "open_stop"
            /\ UNCHANGED <<t, a1f, intPending, elapsed, limit>>
  /\ UNCHANGED <<caller, sleptFrom, rtcVars, intAttached, alarmFlag,
                 gateState, led, servoVars, ok, motion, setupLocals, loopNow,
                 schedVars, ghostVars>>

\* while (!limitPressed() && millis() - t0 < timeout);
OpenPoll ==
  /\ MainRuns("open_wait")
  /\ IF ~limit /\ elapsed < MAX_TURNS * REV_MS
       THEN /\ Advance(PollMs)
            /\ elapsed' = elapsed + PollMs
            /\ limit' \in BOOLEAN
            /\ pc' = pc
       ELSE /\ pc' = "open_stop"
            /\ UNCHANGED <<t, a1f, intPending, elapsed, limit>>
  /\ UNCHANGED <<caller, sleptFrom, rtcVars, intAttached, alarmFlag,
                 gateState, led, servoVars, ok, motion, setupLocals, loopNow,
                 schedVars, ghostVars>>

\* mutant of OpenStop: the timeout path returns before powerServo(false)
M_OpenStop ==
  /\ MainRuns("open_stop")
  /\ servoCmd' = NEUTRAL
  /\ Advance(SETTLE_MS)
  /\ limit' \in BOOLEAN
  /\ mosfet' = ~limit'
  /\ ok' = limit'
  /\ motionFailed' = (motionFailed \/ ~limit')
  /\ pc' = ReturnPc
  /\ UNCHANGED <<caller, sleptFrom, rtcVars, intAttached, alarmFlag,
                 gateState, led, servoAttached, elapsed, motion, setupLocals,
                 loopNow, schedVars, opens, closes, rtcFailed, strays>>

\* mutant of OpenStop: the result is how the busy-wait ended, not the final sample
M_OpenStopLoopResult ==
  /\ MainRuns("open_stop")
  /\ servoCmd' = NEUTRAL
  /\ Advance(SETTLE_MS)
  /\ mosfet' = FALSE
  /\ limit' \in BOOLEAN
  /\ ok' = (elapsed < MAX_TURNS * REV_MS)
  /\ motionFailed' = (motionFailed \/ ~limit')
  /\ pc' = ReturnPc
  /\ UNCHANGED <<caller, sleptFrom, rtcVars, intAttached, alarmFlag,
                 gateState, led, servoAttached, elapsed, motion, setupLocals,
                 loopNow, schedVars, opens, closes, rtcFailed, strays>>

\* door.write(90); delay(200); powerServo(false); ok = limitPressed()
OpenStop ==
  /\ MainRuns("open_stop")
  /\ servoCmd' = NEUTRAL
  /\ Advance(SETTLE_MS)
  /\ mosfet' = FALSE
  /\ limit' \in BOOLEAN
  /\ ok' = limit'
  /\ motionFailed' = (motionFailed \/ ~limit')
  /\ pc' = ReturnPc
  /\ UNCHANGED <<caller, sleptFrom, rtcVars, intAttached, alarmFlag,
                 gateState, led, servoAttached, elapsed, motion, setupLocals,
                 loopNow, schedVars, opens, closes, rtcFailed, strays>>

\* closeDoor(): powerServo(true); delay(200); door.write(180 - FWD_CMD)
CloseStart ==
  /\ MainRuns("close_start")
  /\ mosfet' = TRUE
  /\ Advance(SETTLE_MS)
  /\ servoCmd' = 180 - FWD_CMD
  /\ pc' = "close_run"
  /\ UNCHANGED <<caller, sleptFrom, rtcVars, intAttached, alarmFlag,
                 gateState, led, servoAttached, limit, elapsed, ok, motion,
                 setupLocals, loopNow, schedVars, ghostVars>>

\* mutant of RunMs: the product is taken in 16 bits (no uint32_t cast)
M_RunMs == ((CLOSE_DEG * REV_MS) % 65536) \div 360

\* uint32_t runMs = (uint32_t)CLOSE_DEG * REV_MS / 360UL (the product,
\* 1944000, is below 2^32)
RunMs == (CLOSE_DEG * REV_MS) \div 360

\* delay(runMs)
CloseRun ==
  /\ MainRuns("close_run")
  /\ Advance(RunMs)
  /\ limit' \in BOOLEAN
  /\ pc' = "close_stop"
  /\ UNCHANGED <<caller, sleptFrom, rtcVars, intAttached, alarmFlag,
                 gateState, led, servoVars, elapsed, ok, motion, setupLocals,
                 loopNow, schedVars, ghostVars>>

\* mutant of CloseStop: closeDoor() reports success without sampling the switch
M_CloseStop ==
  /\ MainRuns("close_stop")
  /\ servoCmd' = NEUTRAL
  /\ Advance(SETTLE_MS)
  /\ mosfet' = FALSE
  /\ limit' \in BOOLEAN
  /\ ok' = TRUE
  /\ motionFailed' = (motionFailed \/ limit')
  /\ pc' = ReturnPc
  /\ UNCHANGED <<caller, sleptFrom, rtcVars, intAttached, alarmFlag,
                 gateState, led, servoAttached, elapsed, motion, setupLocals,
                 loopNow, schedVars, opens, closes, rtcFailed, strays>>

\* door.write(90); delay(200); powerServo(false); ok = !limitPressed()
CloseStop ==
  /\ MainRuns("close_stop")
  /\ servoCmd' = NEUTRAL
  /\ Advance(SETTLE_MS)
  /\ mosfet' = FALSE
  /\ limit' \in BOOLEAN
  /\ ok' = ~limit'
  /\ motionFailed' = (motionFailed \/ limit')
  /\ pc' = ReturnPc
  /\ UNCHANGED <<caller, sleptFrom, rtcVars, intAttached, alarmFlag,
                 gateState, led, servoAttached, elapsed, motion, setupLocals,
                 loopNow, schedVars, opens, closes, rtcFailed, strays>>

(* ---------- main(): setup(); for (;;) loop(); ---------- *)
\* setup() or loop() has returned: main() calls loop()
MainLoop ==
  /\ MainRuns("main")
  /\ pc' = "loop"
  /\ UNCHANGED <<caller, sleptFrom, t, rtcVars, a1f, intAttached, intPending,
                 alarmFlag, gateState, led, servoVars, limit, elapsed, ok,
                 motion, setupLocals, loopNow, schedVars, ghostVars>>

(* ---------- loop() ---------- *)
\* if (!alarmFlag) return;
LoopTest ==
  /\ MainRuns("loop")
  /\ pc' = IF alarmFlag THEN "loop_clear" ELSE "main"
  /\ UNCHANGED <<caller, sleptFrom, t, rtcVars, a1f, intAttached, intPending,
                 alarmFlag, gateState, led, servoVars, limit, elapsed, ok,
                 motion, setupLocals, loopNow, schedVars, ghostVars>>

\* alarmFlag = false; DateTime now = rtc.now();
LoopClear ==
  /\ MainRuns("loop_clear")
  /\ alarmFlag' = FALSE
  /\ \E now \in RtcNow : loopNow' = now
  /\ opens' = 0
  /\ closes' = 0
  /\ motion' = "none"
  /\ pc' = "loop_dispatch"
  /\ UNCHANGED <<caller, sleptFrom, t, rtcVars, a1f, intAttached, intPending,
                 gateState, led, servoVars, limit, elapsed, ok, setupLocals,
                 schedVars, rtcFailed, motionFailed, strays>>

\* mutant of LoopDispatch: the close test compares the hour only
M_LoopDispatch ==
  /\ MainRuns("loop_dispatch")
  /\ caller' = "loop"
  /\ ok' = TRUE
  /\ IF Hour(loopNow) = OPEN_HH /\ Minute(loopNow) = OPEN_MM
       THEN /\ motion' = "open"
            /\ opens' = opens + 1
            /\ closes' = closes
            /\ pc' = "open_entry"
     ELSE IF Hour(loopNow) = CLOSE_HH
       THEN /\ motion' = "close"
            /\ closes' = closes + 1
            /\ opens' = opens
            /\ pc' = "close_start"
     ELSE /\ motion' = "none"
          /\ UNCHANGED <<opens, closes>>
          /\ pc' = "loop_ret"
  /\ UNCHANGED <<sleptFrom, t, rtcVars, a1f, intAttached, intPending,
                 alarmFlag, gateState, led, servoVars, limit, elapsed,
                 setupLocals, loopNow, schedVars, rtcFailed, motionFailed, strays>>

\* bool ok = true; the exact hour:minute match and the choice of a motion
LoopDispatch ==
  /\ MainRuns("loop_dispatch")
  /\ caller' = "loop"
  /\ ok' = TRUE
  /\ IF Hour(loopNow) = OPEN_HH /\ Minute(loopNow) = OPEN_MM
       THEN /\ motion' = "open"
            /\ opens' = opens + 1
            /\ closes' = closes
            /\ pc' = "open_entry"
     ELSE IF Hour(loopNow) = CLOSE_HH /\ Minute(loopNow) = CLOSE_MM
       THEN /\ motion' = "close"
            /\ closes' = closes + 1
            /\ opens' = opens
            /\ pc' = "close_start"
     ELSE /\ motion' = "none"
          /\ UNCHANGED <<opens, closes>>
          /\ pc' = "loop_ret"
  /\ UNCHANGED <<sleptFrom, t, rtcVars, a1f, intAttached, intPending,
                 alarmFlag, gateState, led, servoVars, limit, elapsed,
                 setupLocals, loopNow, schedVars, rtcFailed, motionFailed, strays>>

\* mutant of LoopReport: a failed motion goes to sleep without scheduleNextWake()
M_LoopReport ==
  /\ MainRuns("loop_ret")
  /\ gateState' = CASE motion = "open"  -> "OPEN"
                    [] motion = "close" -> "CLOSED"
                    [] OTHER            -> gateState
  /\ Fault(~ok)
  /\ pc' = IF ok THEN "loop_sched" ELSE "loop_sleep"
  /\ UNCHANGED <<caller, sleptFrom, t, rtcVars, a1f, intAttached, intPending,
                 alarmFlag, servoVars, limit, elapsed, ok, motion,
                 setupLocals, loopNow, schedVars, ghostVars>>

\* mutant of LoopReport: a failed motion is dispatched again in the same wake cycle
M_LoopReportRetry ==
  /\ MainRuns("loop_ret")
  /\ gateState' = CASE motion = "open"  -> "OPEN"
                    [] motion = "close" -> "CLOSED"
                    [] OTHER            -> gateState
  /\ Fault(~ok)
  /\ pc' = IF ok THEN "loop_sched" ELSE "loop_dispatch"
  /\ UNCHANGED <<caller, sleptFrom, t, rtcVars, a1f, intAttached, intPending,
                 alarmFlag, servoVars, limit, elapsed, ok, motion,
                 setupLocals, loopNow, schedVars, ghostVars>>

\* mutant of LoopReport: gateState records the outcome of the motion, not the command
M_LoopReportOutcome ==
  /\ MainRuns("loop_ret")
  /\ gateState' = CASE motion = "open" /\ ok  -> "OPEN"
                    [] motion = "close" /\ ok -> "CLOSED"
                    [] OTHER                  -> gateState
  /\ Fault(~ok)
  /\ pc' = "loop_sched"
  /\ UNCHANGED <<caller, sleptFrom, t, rtcVars, a1f, intAttached, intPending,
                 alarmFlag, servoVars, limit, elapsed, ok, motion,
                 setupLocals, loopNow, schedVars, ghostVars>>

\* gateState after the motion; if (!ok) fault(...)
LoopReport ==
  /\ MainRuns("loop_ret")
  /\ gateState' = CASE motion = "open"  -> "OPEN"
                    [] motion = "close" -> "CLOSED"
                    [] OTHER            -> gateState
  /\ Fault(~ok)
  /\ pc' = "loop_sched"
  /\ UNCHANGED <<caller, sleptFrom, t, rtcVars, a1f, intAttached, intPending,
                 alarmFlag, servoVars, limit, elapsed, ok, motion,
                 setupLocals, loopNow, schedVars, ghostVars>>

\* scheduleNextWake() of line 148
LoopSchedule ==
  /\ MainRuns("loop_sched")
  /\ ScheduleNextWake
  /\ pc' = "loop_observe"
  /\ UNCHANGED <<caller, sleptFrom, t, intAttached, intPending, alarmFlag,
                 gateState, led, servoVars, limit, elapsed, ok, motion,
                 setupLocals, loopNow, ghostVars>>

\* delay(OBSERVE_MS) of loop()
LoopObserve ==
  /\ MainRuns("loop_observe")
  /\ Advance(OBSERVE_MS)
  /\ pc' = "loop_sleep"
  /\ UNCHANGED <<caller, sleptFrom, rtcVars, intAttached, alarmFlag,
                 gateState, led, servoVars, limit, elapsed, ok, motion,
                 setupLocals, loopNow, schedVars, ghostVars>>

Next ==
  \/ WakeISR
  \/ RtcAlarmFires
  \/ SetupGpio
  \/ SetupRtc
  \/ SetupSchedule
  \/ SetupAttach
  \/ SetupCorrect
  \/ SetupReturn
  \/ SetupObserve
  \/ GoToSleep
  \/ OpenEntry
  \/ OpenPoll
  \/ OpenStop
  \/ CloseStart
  \/ CloseRun
  \/ CloseStop
  \/ MainLoop
  \/ LoopTest
  \/ LoopClear
  \/ LoopDispatch
  \/ LoopReport
  \/ LoopSchedule
  \/ LoopObserve

Spec == Init /\ [][Next]_vars

\* the same program with an INT line that may also fall on its own
NextStray == Next \/ StrayEdge
SpecStray == Init /\ [][NextStray]_vars

\* the same program with a processor that may also resume on its own
NextSpurious == NextStray \/ SpuriousResume
SpecSpurious == Init /\ [][NextSpurious]_vars

\* the same program with an INT line that may fall at any point
NextGlitch == Next \/ GlitchEdge
SpecGlitch == Init /\ [][NextGlitch]_vars

\* the processor executes its next instruction whenever there is one, and
\* the running clock reaches the programmed alarm time
FairSpec == Spec /\ WF_vars(Next)

(***************************************************************************)
(* Properties                                                              *)
(***************************************************************************)
\* minute of the day of a timestamp, and the daytime window [open, close)
MinOfDay(n)  == (n % DaySec) \div 60
OpenMinute   == OPEN_HH * 60 + OPEN_MM
CloseMinute  == CLOSE_HH * 60 + CLOSE_MM
IsDaytime(n) == OpenMinute <= MinOfDay(n) /\ MinOfDay(n) < CloseMinute

\* setup() is past its door correction and loop() has not run yet
SetupDone ==
  \/ pc \in {"setup_observe", "setup_sleep"}
  \/ pc = "halted" /\ sleptFrom = "setup"
\* scheduleNextWake() has run at least once
Scheduled == pc \notin {"setup_gpio", "setup_rtc", "setup_sched"}
\* control is inside openDoor() or closeDoor(), past the power-up
Driving == pc \in {"open_wait", "open_stop", "close_run", "close_stop"}

\* C1: every alarm armed by scheduleNextWake() is followed by wake
\* processing: the processor is never halted in goToSleep() with an armed
\* alarm whose time has passed and no wake edge left to resume it.
C1_NoLostWake ==
  (pc = "halted" /\ rtcPresent /\ alarmSet)
    => (t < alarmAt * 1000 \/ intPending)

\* C2: the timestamp scheduleNextWake() writes to the alarm is strictly later
\* than the `now` it read, and is today's open time before today's open,
\* today's close time from today's open up to today's close, and tomorrow's
\* open time (zero seconds) from today's close on.
C2_NextWakeInFuture ==
  Scheduled =>
    LET sod == schedNow % DaySec
        d   == Day(schedNow)
    IN /\ schedNext > schedNow
       /\ rtcPresent => (alarmSet /\ alarmAt = schedNext)
       /\ sod < OpenSec => schedNext = d * DaySec + OpenSec
       /\ (OpenSec <= sod /\ sod < CloseSec)
            => schedNext = d * DaySec + CloseSec
       /\ sod >= CloseSec
            => (schedNext = (d + 1) * DaySec + OpenSec /\ Second(schedNext) = 0)

\* a wake after today's close has armed tomorrow's open time
C2_Witness ==
  /\ pc = "loop_observe"
  /\ schedNow % DaySec > CloseSec
  /\ schedNext = (Day(schedNow) + 1) * DaySec + OpenSec
  /\ alarmAt = schedNext

\* C3: at boot, daytime and switch not triggered invokes openDoor(), night
\* and switch triggered invokes closeDoor(), the two other cases invoke no
\* motion, and gateState ends OPEN when daytime and CLOSED otherwise whether
\* or not a motion ran or succeeded.
C3_BootCorrection ==
  SetupDone =>
    LET day == IsDaytime(setupNow)
    IN /\ (day /\ ~setupLimit) => (opens = 1 /\ closes = 0)
       /\ (~day /\ setupLimit) => (opens = 0 /\ closes = 1)
       /\ (day = setupLimit) => (opens = 0 /\ closes = 0)
       /\ gateState = IF day THEN "OPEN" ELSE "CLOSED"

\* boot at 09:00 with the switch not triggered: the open motion ran, failed,
\* and gateState is OPEN all the same
C3_Witness ==
  /\ SetupDone
  /\ setupNow = 9 * 3600
  /\ ~setupLimit
  /\ opens = 1
  /\ ~ok
  /\ gateState = "OPEN"

\* C4: when setup() finishes its door correction without a motion fault, the
\* limit switch reads triggered if the boot time is daytime and not triggered
\* if it is night (the switch changes only while the actuator moves the door).
C4_SafeStartup ==
  (SetupDone /\ ok) => (limit = IsDaytime(setupNow))

\* a night boot with the door up: closeDoor() ran and the switch is released
C4_Witness ==
  /\ SetupDone
  /\ ~IsDaytime(setupNow)
  /\ setupLimit
  /\ closes = 1
  /\ ok
  /\ ~limit

\* C5: wake dispatch with alarmFlag set: a clock at the close hour:minute
\* invokes closeDoor() exactly once and not openDoor(), a clock at the open
\* hour:minute invokes openDoor() exactly once and not closeDoor(), any other
\* time invokes no motion, and alarmFlag is false after the dispatch.
C5_WakeDispatch ==
  pc = "loop_sched" =>
    /\ ~alarmFlag
    /\ MinOfDay(loopNow) = CloseMinute => (closes = 1 /\ opens = 0)
    /\ MinOfDay(loopNow) = OpenMinute => (opens = 1 /\ closes = 0)
    /\ MinOfDay(loopNow) \notin {OpenMinute, CloseMinute}
         => (opens = 0 /\ closes = 0)

\* a wake at the close time has invoked closeDoor() once
C5_Witness ==
  /\ pc = "loop_sched"
  /\ MinOfDay(loopNow) = CloseMinute
  /\ closes = 1
  /\ opens = 0
  /\ ~alarmFlag

\* the boot of the end-to-end scenario: 12:00 on the boot day, switch not
\* triggered, the clock present
Boot12 ==
  /\ rtcPresent
  /\ pc \notin {"setup_gpio", "setup_rtc", "setup_sched", "setup_attach",
                "setup_correct"}
  /\ setupNow = 12 * 3600
  /\ ~setupLimit
\* the boot of the scenario is inside its openDoor() call
Boot12Opening ==
  /\ Boot12
  /\ caller = "setup"
  /\ pc \in {"open_entry", "open_wait", "open_stop"}
\* the results of the scenario: asleep after setup() with the open motion
\* invoked and 22:00 of the boot day armed; asleep after the 22:00 wake with
\* the close motion invoked and 08:00 of the next day armed
Boot12Results ==
  /\ (Boot12 /\ pc = "halted" /\ sleptFrom = "setup")
       => /\ opens = 1 /\ closes = 0
          /\ alarmSet /\ alarmAt = MkDateTime(0, CLOSE_HH, CLOSE_MM, 0)
  /\ (Boot12 /\ pc = "loop_dispatch" /\ strays = 0 /\ Day(loopNow) = 0)
       => loopNow = MkDateTime(0, CLOSE_HH, CLOSE_MM, 0)
  /\ (Boot12 /\ pc = "halted" /\ sleptFrom = "loop"
        /\ loopNow = MkDateTime(0, CLOSE_HH, CLOSE_MM, 0))
       => /\ closes = 1 /\ opens = 0
          /\ alarmSet /\ alarmAt = MkDateTime(1, OPEN_HH, OPEN_MM, 0)

\* C6 as stated: the boot at 12:00 with the switch not triggered opens and
\* then arms 22:00 of the same day (no alarm is armed yet while the boot
\* motion runs); the 22:00 wake closes and arms 08:00 of the next day.
C6_OpensThenArms ==
  /\ Boot12Opening => ~alarmSet
  /\ Boot12Results

\* C6 as amended: the boot at 12:00 with the switch not triggered arms 22:00
\* of the same day and then opens (the alarm is already armed while the boot
\* motion runs, and is not written again before the sleep); the 22:00 wake
\* closes and arms 08:00 of the next day.
C6_ArmsThenOpens ==
  /\ Boot12Opening
       => (alarmSet /\ alarmAt = MkDateTime(0, CLOSE_HH, CLOSE_MM, 0))
  /\ Boot12Results

\* asleep after the 22:00 wake of the scenario, 08:00 of the next day armed
C6_Witness ==
  /\ Boot12
  /\ pc = "halted"
  /\ sleptFrom = "loop"
  /\ loopNow = MkDateTime(0, CLOSE_HH, CLOSE_MM, 0)
  /\ closes = 1
  /\ alarmAt = MkDateTime(1, OPEN_HH, OPEN_MM, 0)

\* C7: whatever a motion returns, its cycle runs to completion: after a failed
\* motion at boot setup() reaches goToSleep() with the alarm programmed; after
\* a failed motion in a wake cycle loop() raises the fault, reschedules and
\* reaches goToSleep(); the processor is never halted with no alarm
\* programmed.
C7_CycleCompletes ==
  /\ (pc = "setup_ret" /\ ~ok)
       ~> (pc = "halted" /\ sleptFrom = "setup" /\ led
             /\ (rtcPresent => alarmSet))
  /\ (pc = "loop_ret" /\ ~ok)
       ~> (pc = "halted" /\ sleptFrom = "loop" /\ led
             /\ (rtcPresent => (alarmSet /\ ~a1f /\ alarmAt * 1000 > t))
             /\ schedNow >= loopNow)
  /\ []((pc = "halted" /\ rtcPresent) => alarmSet)

\* asleep after a wake cycle whose motion failed: fault raised, next alarm
\* armed and still ahead
C7_Witness ==
  /\ pc = "halted"
  /\ sleptFrom = "loop"
  /\ ~ok
  /\ led
  /\ alarmSet
  /\ ~a1f
  /\ alarmAt * 1000 > t
  /\ schedNow >= loopNow

\* C8: the actuator is powered or commanded off neutral only inside
\* openDoor() or closeDoor(); on every exit from them, and so whenever the
\* system observes or is halted, the servo command is neutral and the power
\* gate is off.
C8_ActuatorOnlyInMotion ==
  ~Driving => (~mosfet /\ servoCmd = NEUTRAL)

\* back in the caller after an open motion that timed out: neutral and off
C8_Witness ==
  /\ pc \in {"setup_ret", "loop_ret"}
  /\ motion = "open"
  /\ ~ok
  /\ elapsed >= MAX_TURNS * REV_MS
  /\ ~mosfet
  /\ servoCmd = NEUTRAL

\* C9: the fault indicator is latched: once set it stays set in every later
\* state of the run.
C9_FaultLatched == [][led => led']_vars

\* the indicator is still set, asleep after a later wake whose motion succeeded
C9_Witness ==
  /\ led
  /\ pc = "halted"
  /\ sleptFrom = "loop"
  /\ motion # "none"
  /\ ok
  /\ ~rtcFailed

C11_AlreadyOpen ==
  [][(pc = "open_entry" /\ limit /\ pc' # pc)
       => /\ pc' = ReturnPc
          /\ ok'
          /\ ~mosfet /\ ~mosfet'
          /\ servoCmd' = servoCmd /\ servoCmd' = NEUTRAL
          /\ t' = t]_vars

\* back in loop() from an openDoor() that took no time: switch triggered,
\* success reported, actuator never powered
C11_Witness ==
  /\ pc = "loop_ret"
  /\ motion = "open"
  /\ t = loopNow * 1000
  /\ limit
  /\ ok
  /\ ~mosfet
  /\ servoCmd = NEUTRAL

\* C12: openDoor() with a limit switch that never reads triggered terminates:
\* its busy-wait ends once MAX_TURNS x REV_MS have elapsed, not earlier (and
\* within one sample of it), it returns false, and it leaves the actuator
\* neutral and de-powered.
C12_OpenTimeout ==
  /\ []((pc = "open_stop" /\ ~limit)
          => /\ elapsed >= MAX_TURNS * REV_MS
             /\ elapsed < MAX_TURNS * REV_MS + PollMs)
  /\ (pc = "open_wait") ~> (pc \in {"setup_ret", "loop_ret"})
  /\ [][(pc = "open_stop" /\ pc' # pc /\ ~limit')
          => /\ pc' = ReturnPc
             /\ ~ok'
             /\ ~mosfet'
             /\ servoCmd' = NEUTRAL]_vars

\* back in setup() from an open motion whose switch never triggered: the
\* timeout has elapsed, failure reported, actuator neutral and off
C12_Witness ==
  /\ pc = "setup_ret"
  /\ motion = "open"
  /\ ~limit
  /\ elapsed >= MAX_TURNS * REV_MS
  /\ elapsed < MAX_TURNS * REV_MS + PollMs
  /\ ~ok
  /\ ~mosfet
  /\ servoCmd = NEUTRAL

\* C13: closeDoor() drives the actuator in the lowering direction for the
\* fixed time CLOSE_DEG x REV_MS / 360 whatever the limit switch reads during
\* the motion, and returns false if and only if the switch reads triggered
\* when sampled after the actuator is stopped and de-powered.
C13_CloseFixedRun ==
  /\ [](pc = "close_run" => (mosfet /\ servoCmd = 180 - FWD_CMD))
  /\ [][(pc = "close_run" /\ pc' # pc)
          => /\ pc' = "close_stop"
             /\ t' - t = (CLOSE_DEG * REV_MS) \div 360
             /\ mosfet' /\ servoCmd' = 180 - FWD_CMD]_vars
  /\ [][(pc = "close_stop" /\ pc' # pc)
          => /\ pc' = ReturnPc
             /\ ~mosfet' /\ servoCmd' = NEUTRAL
             /\ ok' = ~limit']_vars

\* back in loop() from a close motion that left the switch triggered:
\* failure reported after the full run and both settle delays
C13_Witness ==
  /\ pc = "loop_ret"
  /\ motion = "close"
  /\ t = loopNow * 1000 + 2 * SETTLE_MS + (CLOSE_DEG * REV_MS) \div 360
  /\ limit
  /\ ~ok
  /\ ~mosfet

\* C14: when the processor resumes and loop() finds alarmFlag false, the
\* system returns to sleep without action: no clock read, no motion, no
\* schedule recompute or alarm write, no change to gateState or the fault
\* indicator, and the processor is halted again.
C14_SpuriousWakeSleeps ==
  [][(pc = "loop" /\ ~alarmFlag /\ pc' # pc)
       => /\ pc' = "halted"
          /\ UNCHANGED <<loopNow, motion, opens, closes, schedNow, schedNext,
                         alarmSet, alarmAt, gateState, led>>]_vars

\* the Startup Reconciler of setup() is running: the daytime test, the boot
\* motion, or the statement after it
Reconciling ==
  /\ caller = "setup"
  /\ pc \in {"setup_correct", "open_entry", "open_wait", "open_stop",
             "close_start", "close_run", "close_stop", "setup_ret"}
\* the processor sleeps for the first time: scheduled and reconciled
FirstSleepReady ==
  (pc = "halted" /\ sleptFrom = "setup")
    => /\ schedNext # 0
       /\ daytime = IsDaytime(setupNow)
       /\ gateState = IF daytime THEN "OPEN" ELSE "CLOSED"

\* C15 as stated: at boot the Startup Reconciler (daytime test and corrective
\* motion) runs before the first wake time is computed and armed, and both
\* happen before the first sleep.
C15_ReconcileThenArm ==
  /\ Reconciling => schedNext = 0
  /\ FirstSleepReady

\* C15 as amended: at boot the first wake time is computed and armed before
\* the Startup Reconciler runs, and both happen before the first sleep.
C15_ArmThenReconcile ==
  /\ pc = "setup_sched" => (schedNext = 0 /\ ~daytime /\ opens + closes = 0)
  /\ Reconciling => (schedNext # 0 /\ (rtcPresent => alarmSet))
  /\ FirstSleepReady

\* the boot open motion is running and the first wake is already armed
C15_Witness ==
  /\ Reconciling
  /\ pc = "open_wait"
  /\ schedNext # 0
  /\ alarmSet
  /\ alarmAt = schedNext

\* C16: the read and the clear of alarmFlag in loop() are atomic relative to
\* the wake interrupt: with edges able to arrive at any point, wakeISR never
\* runs between the test of alarmFlag and its clearing, so no edge is
\* absorbed by the clear of an earlier edge.
C16_TestAndClearAtomic ==
  [][pc = "loop_clear" => ~(intPending /\ ~intPending' /\ alarmFlag')]_vars

\* C17: no automatic retry: within the boot reconciliation and within one
\* wake cycle (from consuming alarmFlag to the next goToSleep()) at most one
\* motion operation is invoked in total, also when that motion returned false.
C17_NoRetry == opens + closes <= 1

\* asleep after a wake cycle whose only motion failed
C17_Witness ==
  /\ pc = "halted"
  /\ sleptFrom = "loop"
  /\ opens + closes = 1
  /\ ~ok
  /\ led

\* control is back in the caller from openDoor()
OpenReturned == pc \in {"setup_ret", "loop_ret"} /\ motion = "open"

C19_HaltedAlarmAhead ==
  (pc = "halted" /\ rtcPresent /\ ~intPending)
    => /\ ~alarmFlag
       /\ alarmSet
       /\ alarmAt * 1000 > t

\* the wake time read at line 134 matches the open time / the close time
WakeMatchesOpen == Hour(loopNow) = OPEN_HH /\ Minute(loopNow) = OPEN_MM

WakeMatchesClose ==
  /\ ~WakeMatchesOpen
  /\ Hour(loopNow) = CLOSE_HH /\ Minute(loopNow) = CLOSE_MM

\* C20: gateState records the last commanded direction, not the outcome.  The
\* pass of loop() that follows a wake sets it OPEN when the wake time matches
\* the open time and CLOSED when it matches the close time, whatever the
\* motion returned, and leaves it alone when neither matches; a pass that finds
\* alarmFlag false changes nothing; outside that report step and the boot
\* correction gateState never changes.
C20_GateStateIsCommand ==
  [][ /\ (pc = "loop_ret" /\ pc' = "loop_sched")
         => gateState' = IF WakeMatchesOpen THEN "OPEN"
                         ELSE IF WakeMatchesClose THEN "CLOSED"
                         ELSE gateState
      /\ (pc = "loop" /\ ~alarmFlag /\ pc' = "main") => gateState' = gateState
      /\ (gateState' # gateState) => pc \in {"loop_ret", "setup_ret"}
    ]_vars

\* a wake at the open time whose openDoor() returned false: the processor
\* sleeps with gateState OPEN while the limit switch reads not triggered
C20_Witness ==
  /\ pc = "halted" /\ sleptFrom = "loop"
  /\ motion = "open" /\ ~ok
  /\ WakeMatchesOpen
  /\ gateState = "OPEN" /\ ~limit

=============================================================================
